---------------------------- MODULE Spec2Model ----------------------------
(***************************************************************************)
(* Model of budgenator: the chat/budget ledger (core.managers.ChatManager), *)
(* the schedule orchestration (ScheduleManager), the reaper                 *)
(* (ServiceKeeper + task_manager.tasks.terminate_idle_task) and the         *)
(* periodic tasks that call into the ledger.                                *)
(*                                                                          *)
(* Two stores are modelled by their committed contents:                     *)
(*   core store      chats, budgets                                         *)
(*   schedule store  crontabs, ptasks (+ the two id sequences)              *)
(*                                                                          *)
(* Names the managers use but that no file of the repository defines are    *)
(* taken from the specification's persisted schema / operation list and are *)
(* marked as such where they are introduced:                                *)
(*   Chat.schedule_ids, Chat.task_ids, Budget.replenishment (columns),      *)
(*   ServiceKeeper.butch_terminate / butch_delete (called by the sweep).    *)
(*                                                                          *)
(* Money is modelled in whole currency units (Numeric(10,2) values with a   *)
(* zero fraction); a missing optional argument (Python None) is the empty   *)
(* sequence and a supplied one a one-element sequence.                      *)
(***************************************************************************)
EXTENDS Integers, Sequences, FiniteSets, TLC

\* ------------------------------------------------------------------ bounds
MaxBalance == 2
MaxNow == 2
MaxRestarts == 1
MaxSchedules == 2
MaxPairs == 2

\* ------------------------------------------------------ program parameters
\* config.MAX_IDLE_DAYS (read from the environment); one day in the model.
MAX_IDLE_DAYS == 1

ChatIds == {1, 2}
Amounts == {0, 1, 2}
States == {"INITIAL", "CONFIGURED", "TERMINATED"}
EventTypes == {"REPLENISHMENT", "ANNULMENT", "REMINDER"}
Bases == {"DAILY", "DAY_OF_THE_WEEK", "DAY_OF_THE_MONTH"}

Opt(S) == {<<>>} \cup {<<x>> : x \in S}
IsNone(o) == o = <<>>

VARIABLES
    chats,        \* core store: chat_id -> Chat row
    budgets,      \* core store: chat_id -> the Budget row owned by that chat
    crontabs,     \* schedule store: set of CrontabSchedule rows
    ptasks,       \* schedule store: set of PeriodicTask rows
    crontab_seq,  \* schedule store: last id drawn for a CrontabSchedule
    ptask_seq,    \* schedule store: last id drawn for a PeriodicTask
    now,          \* wall clock, in days
    loaded_at,    \* time core.models was imported by the running bot process
    proc_uuid,    \* the uuid4() drawn once when core.models was imported
    failed,       \* the bot process's two manager sessions: left failed?
    bot,          \* the Bot's dictionaries: managers, configs, current_handlers
    sweep,        \* the terminate_idle_task run in progress (its locals)
    messages,     \* core store: (section, alias) -> the Message row's value
    callers,      \* add_scheduler_objects_pair calls in progress, per caller
    last          \* the last operation: which, on which chat, how it ended

coreVars == <<chats, budgets>>
schedVars == <<crontabs, ptasks, crontab_seq, ptask_seq>>
\* What no ledger, schedule or sweep operation writes: the clock, the bot
\* process, the message table and the calls in progress.
procVars == <<now, loaded_at, proc_uuid, failed, bot, messages, callers>>
vars == <<chats, budgets, crontabs, ptasks, crontab_seq, ptask_seq,
          now, loaded_at, proc_uuid, failed, bot, sweep, messages, callers, last>>

\* ------------------------------------------------------------------- rows
\* Chat.schedule_ids and Chat.task_ids: the managers read and append to
\* them, class Chat does not declare them; taken from the persisted schema
\* of the specification (ordered sequences of int, empty on creation).
IdArrays == [schedule_ids |-> <<>>, task_ids |-> <<>>]

\* Budget.replenishment: assigned by engage, read by top_up and written by
\* change_replenishment, not declared by class Budget; taken from the
\* persisted schema of the specification (a numeric column).
ReplenishmentColumn(v) == [replenishment |-> v]

NoChat == [exists |-> FALSE, state |-> "INITIAL", latest_contact |-> 0] @@ IdArrays
NoBudget == [exists |-> FALSE, budget_id |-> 0, balance |-> 0] @@ ReplenishmentColumn(0)

\* Chat(): state defaults to INITIAL; latest_contact defaults to the
\* datetime.now() evaluated when the class body ran (engage assigns
\* latest_msg_received_at, which is no column).
NewChat == [exists |-> TRUE, state |-> "INITIAL", latest_contact |-> loaded_at] @@ IdArrays

\* Budget(): budget_id defaults to the one uuid4() of the process; balance
\* defaults to 0.00 and takes start_balance only when that is truthy.
NewBudget(replenishment, start_balance) ==
    [exists |-> TRUE, budget_id |-> proc_uuid,
     balance |-> IF IsNone(start_balance) \/ start_balance[1] = 0
                 THEN 0 ELSE start_balance[1]] @@ ReplenishmentColumn(replenishment)

\* ChatManager.db_session ("core") and ScheduleManager.db_session
\* ("schedule") are class attributes: one Session each for the whole process.
NoFailure == [core |-> FALSE, schedule |-> FALSE]

\* Bot.managers, Bot.configs and Bot.current_handlers are empty class-level
\* dictionaries; a missing key is "NONE" (handlers) or NoConfig (configs).
NoConfig == [exists |-> FALSE, event_type |-> "NONE", basis |-> "NONE",
             time |-> <<>>, day |-> <<>>]
NoBot == [managers |-> {},
          configs |-> [c \in ChatIds |-> NoConfig],
          current_handlers |-> [c \in ChatIds |-> "NONE"]]

\* Two callers of add_scheduler_objects_pair, each with its own Session (a
\* ChatManager in another process), and what a caller holds between its
\* statements: the Chat object its session loaded.
Callers == {1, 2}
NoCall == [pc |-> "idle", chat |-> 0, schedule_ids |-> <<>>, task_ids |-> <<>>]

\* The message table: the keys the bot asks for, the texts text.ini gives.
MessageKeys == {<<"config", "menu">>, <<"config", "time">>, <<"config", "time_wrong_input">>}
MessageTexts == {"text", "new text"}

Outcome(op, c, how, value) == [op |-> op, chat |-> c, outcome |-> how, value |-> value]

Init ==
    /\ chats = [c \in ChatIds |-> NoChat]
    /\ budgets = [c \in ChatIds |-> NoBudget]
    /\ crontabs = {}
    /\ ptasks = {}
    /\ crontab_seq = 0
    /\ ptask_seq = 0
    /\ now = 0
    /\ loaded_at = 0
    /\ proc_uuid = 0
    /\ messages = [k \in MessageKeys |-> <<>>]
    /\ callers = [p \in Callers |-> NoCall]
    /\ failed = NoFailure
    /\ bot = NoBot
    /\ sweep = [pc |-> "idle", chat_ids |-> <<>>, schedule_ids |-> <<>>, task_ids |-> <<>>,
                unfinished |-> <<>>]
    /\ last = Outcome("init", 0, "ok", <<>>)

\* ----------------------------------------------------------- ChatManager
\* _check_state: True only for CONFIGURED; False for INITIAL and TERMINATED;
\* None (falsy) when no Chat row matches.
check_state(c) == chats[c].exists /\ chats[c].state = "CONFIGURED"

\* A manager method that raises: handle_exceptions catches it and reads
\* args[0] as the manager instance; args holds the call's positional
\* arguments only, so the handler itself raises (IndexError with no
\* positional argument, AttributeError on getattr(args[0], "db_session"))
\* before rollback, notification and logging.  The exception reaches the
\* caller; nothing of the failed transaction is committed.
Raises(op, c) ==
    /\ last' = Outcome(op, c, "raised", <<>>)
    /\ UNCHANGED <<coreVars, procVars, sweep>>

\* A commit that fails in its flush leaves the Session's transaction
\* inactive until Session.rollback() is called; the handler never reaches
\* its rollback, so the session stays failed for the life of the process.
CommitFails(op, c, session) ==
    /\ last' = Outcome(op, c, "raised", <<>>)
    /\ failed' = [failed EXCEPT ![session] = TRUE]
    /\ UNCHANGED <<coreVars, now, loaded_at, proc_uuid, bot, sweep, messages, callers>>

\* Any statement or commit on the failed ChatManager session raises
\* (PendingRollbackError), and the handler raises in turn.
Pending(op, c) == Raises(op, c) /\ UNCHANGED schedVars

\* engage: INSERT chat, INSERT budget, commit.  The commit fails on a
\* duplicate chat_id and on a duplicate budget_id.
\* (mutant) the chat is merged over an existing row instead of inserted.
engage_conflict_budget_only(c) ==
    \E d \in ChatIds : d # c /\ budgets[d].exists /\ budgets[d].budget_id = proc_uuid
engage_conflict(c) ==
    \/ chats[c].exists
    \/ \E d \in ChatIds : budgets[d].exists /\ budgets[d].budget_id = proc_uuid

Engage(c, replenishment, start_balance) ==
    /\ IF failed.core
       THEN Raises("engage", c)
       ELSE IF engage_conflict(c)
       THEN CommitFails("engage", c, "core")
       ELSE /\ chats' = [chats EXCEPT ![c] = NewChat]
            /\ budgets' = [budgets EXCEPT ![c] = NewBudget(replenishment, start_balance)]
            /\ last' = Outcome("engage", c, "ok", <<>>)
            /\ UNCHANGED <<procVars, sweep>>
    /\ UNCHANGED schedVars

\* get_balance: None unless CONFIGURED, else the scalar of the SELECT
\* (None when no Budget row matches).
\* (mutant) the balance is read without the state check.
get_balance_unchecked(c) ==
    IF budgets[c].exists THEN <<budgets[c].balance>> ELSE <<>>
get_balance(c) ==
    IF ~check_state(c) THEN <<>>
    ELSE IF budgets[c].exists THEN <<budgets[c].balance>> ELSE <<>>

GetBalance(c) ==
    IF failed.core THEN Pending("get_balance", c)
    ELSE
       /\ last' = Outcome("get_balance", c,
                          IF check_state(c) THEN "ok" ELSE "rejected", get_balance(c))
       /\ UNCHANGED <<coreVars, schedVars, procVars, sweep>>

\* UPDATE budget SET ... WHERE chat_id = c; commit.
UpdateBudget(c, row) ==
    budgets' = [budgets EXCEPT ![c] = IF budgets[c].exists THEN row ELSE budgets[c]]

InRange(v) == -MaxBalance <= v /\ v <= MaxBalance

\* (mutant) the balance is floored at zero.
spend_balance_floored(b, amount) ==
    IF b.balance - amount < 0 THEN 0 ELSE b.balance - amount
spend_balance(b, amount) == b.balance - amount

Spend(c, amount) ==
    IF failed.core THEN Pending("spend", c)
    ELSE
       /\ IF check_state(c)
          THEN /\ InRange(spend_balance(budgets[c], amount))
               /\ UpdateBudget(c, [budgets[c] EXCEPT !.balance = spend_balance(budgets[c], amount)])
               /\ last' = Outcome("spend", c, "ok", <<amount>>)
          ELSE /\ last' = Outcome("spend", c, "rejected", <<amount>>)
               /\ UNCHANGED budgets
       /\ UNCHANGED <<chats, schedVars, procVars, sweep>>

\* top_up: replenishment = amount or Budget.replenishment, so None and a
\* zero amount both select the row's replenishment column.
top_up_by(b, amount) ==
    IF IsNone(amount) \/ amount[1] = 0 THEN b.replenishment ELSE amount[1]

\* The body of top_up: its writes, and how it returns.
top_up(c, amount) ==
    IF check_state(c)
    THEN /\ InRange(budgets[c].balance + top_up_by(budgets[c], amount))
         /\ UpdateBudget(c, [budgets[c] EXCEPT
                               !.balance = @ + top_up_by(budgets[c], amount)])
    ELSE UNCHANGED budgets

top_up_returns(c) == IF check_state(c) THEN "ok" ELSE "rejected"

TopUp(c, amount) ==
    IF failed.core THEN Pending("top_up", c)
    ELSE
       /\ top_up(c, amount)
       /\ last' = Outcome("top_up", c, top_up_returns(c), amount)
       /\ UNCHANGED <<chats, schedVars, procVars, sweep>>

\* (mutant) a debt is kept.
annul_balance_keep_debt(b) == IF b.balance < 0 THEN b.balance ELSE 0
annul_balance(b) == 0

DoAnnul(op, c) ==
    /\ IF check_state(c)
       THEN /\ UpdateBudget(c, [budgets[c] EXCEPT !.balance = annul_balance(budgets[c])])
            /\ last' = Outcome(op, c, "ok", <<>>)
       ELSE /\ last' = Outcome(op, c, "rejected", <<>>)
            /\ UNCHANGED budgets
    /\ UNCHANGED <<chats, schedVars, procVars, sweep>>

Annul(c) == IF failed.core THEN Pending("annul", c) ELSE DoAnnul("annul", c)

ChangeReplenishment(c, size) ==
    IF failed.core THEN Pending("change_replenishment", c)
    ELSE
       /\ IF check_state(c)
          THEN /\ UpdateBudget(c, [budgets[c] EXCEPT !.replenishment = size])
               /\ last' = Outcome("change_replenishment", c, "ok", <<size>>)
          ELSE /\ last' = Outcome("change_replenishment", c, "rejected", <<size>>)
               /\ UNCHANGED budgets
       /\ UNCHANGED <<chats, schedVars, procVars, sweep>>

\* UPDATE chat SET ... WHERE chat_id = c; commit (no row: nothing changes).
UpdateChat(c, row) ==
    chats' = [chats EXCEPT ![c] = IF chats[c].exists THEN row ELSE chats[c]]

RefreshLatestContact(c) ==
    IF failed.core THEN Pending("refresh_latest_contact", c)
    ELSE
       /\ UpdateChat(c, [chats[c] EXCEPT !.latest_contact = now])
       /\ last' = Outcome("refresh_latest_contact", c, "ok", <<>>)
       /\ UNCHANGED <<budgets, schedVars, procVars, sweep>>

\* set_configured: the UPDATE carries no condition on the current state.
set_configured_state(old) == "CONFIGURED"

SetConfigured(c) ==
    IF failed.core THEN Pending("set_configured", c)
    ELSE
       /\ UpdateChat(c, [chats[c] EXCEPT !.state = set_configured_state(@)])
       /\ last' = Outcome("set_configured", c, "ok", <<>>)
       /\ UNCHANGED <<budgets, schedVars, procVars, sweep>>

\* set_terminated: only the state is written ("TODO add relevant objects
\* removal"): the Budget and the schedule store are left alone.
SetTerminated(c) ==
    IF failed.core THEN Pending("set_terminated", c)
    ELSE
       /\ UpdateChat(c, [chats[c] EXCEPT !.state = "TERMINATED"])
       /\ last' = Outcome("set_terminated", c, "ok", <<>>)
       /\ UNCHANGED <<budgets, schedVars, procVars, sweep>>

\* add_scheduler_objects_pair: both appends, then one commit.  With no Chat
\* row, db_session.get returns None and the first append raises.
\* (mutant) the task id is not appended.
add_pair_schedule_only(row, scheduler_id, task_id) ==
    [row EXCEPT !.schedule_ids = Append(@, scheduler_id)]
add_pair(row, scheduler_id, task_id) ==
    [row EXCEPT !.schedule_ids = Append(@, scheduler_id),
                !.task_ids = Append(@, task_id)]

AddSchedulerObjectsPair(c, scheduler_id, task_id) ==
    IF failed.core THEN Pending("add_scheduler_objects_pair", c)
    ELSE
       /\ IF ~chats[c].exists
          THEN Raises("add_scheduler_objects_pair", c)
          ELSE /\ Len(chats[c].schedule_ids) < MaxPairs
               /\ chats' = [chats EXCEPT ![c] = add_pair(chats[c], scheduler_id, task_id)]
               /\ last' = Outcome("add_scheduler_objects_pair", c, "ok",
                                  <<scheduler_id, task_id>>)
               /\ UNCHANGED <<budgets, procVars, sweep>>
       /\ UNCHANGED schedVars

\* ------------------------------------------------------- ScheduleManager
\* DayOfTheWeek members: (value, ordinal_number, is_weekend).
WeekDays == <<"MONDAY", "TUESDAY", "WEDNESDAY", "THURSDAY", "FRIDAY", "SATURDAY", "SUNDAY">>
\* (mutant) weekdays are counted from zero.
ordinal_number_from_zero(d) == (CHOOSE i \in 1..7 : WeekDays[i] = d) - 1
ordinal_number(d) == CHOOSE i \in 1..7 : WeekDays[i] = d

\* EventType members are built from three values, (value, task, True): the
\* third lands in the parameter `model` and requires_chat_id keeps its
\* default, False, for every member.
requires_chat_id(event_type) == FALSE

\* The ScheduleEntry values the operations are tried with.
Times == {<<9, 0>>}
EntryDays(basis) ==
    CASE basis = "DAILY" -> {<<>>}
      [] basis = "DAY_OF_THE_WEEK" -> {<<"SUNDAY">>}
      [] basis = "DAY_OF_THE_MONTH" -> {<<31>>}
ScheduleEntries ==
    UNION {{[event_type |-> e, basis |-> b, time |-> t, day |-> d] :
              e \in EventTypes, t \in Times, d \in EntryDays(b)} : b \in Bases}

\* The CrontabSchedule row built from a ScheduleEntry.
crontab_of(id, record) ==
    [id |-> id, hour |-> record.time[1], minute |-> record.time[2],
     day_of_week |-> IF record.basis = "DAY_OF_THE_WEEK"
                     THEN <<ordinal_number(record.day[1])>> ELSE <<>>,
     day_of_month |-> IF record.basis = "DAY_OF_THE_MONTH" THEN record.day ELSE <<>>]

\* The PeriodicTask row: name is f"{record.event_type}_{chat_id}", built from
\* the chat_id argument of the call (None when the caller passes none).
task_name(record, chat_id) == <<record.event_type, chat_id>>
ptask_of(id, record, chat_id, crontab_id) ==
    [id |-> id, name |-> task_name(record, chat_id),
     task |-> record.event_type, crontab_id |-> crontab_id]

\* (mutant) the rows flushed before the failing INSERT stay in the store.
failed_commit_keeps_flushed(rows) == rows
\* db_session.add_all([crontab_schedule, periodic_task]); db_session.commit():
\* one transaction; when its flush fails the transaction is rolled back, and
\* of the rows flushed before the failing INSERT none stays.
failed_commit_keeps(rows) == {}

\* schedule_crontab_task on the ScheduleManager of chat c's manager.  The
\* commit fails when the name is taken (PeriodicTask.name is unique), then
\* persists neither row and leaves the schedule session failed; on the
\* failed session the commit raises at once.
ScheduleCrontabTask(c, record, chat_id) ==
    /\ crontab_seq < MaxSchedules
    /\ IF IsNone(chat_id) /\ requires_chat_id(record.event_type)
       THEN Raises("schedule_crontab_task", c) /\ UNCHANGED schedVars
       ELSE IF failed.schedule
       THEN Raises("schedule_crontab_task", c) /\ UNCHANGED schedVars
       ELSE IF \E t \in ptasks : t.name = task_name(record, chat_id)
       THEN /\ CommitFails("schedule_crontab_task", c, "schedule")
            /\ crontabs' = crontabs \cup
                  failed_commit_keeps({crontab_of(crontab_seq + 1, record)})
            /\ UNCHANGED <<ptasks, crontab_seq, ptask_seq>>
       ELSE /\ crontab_seq' = crontab_seq + 1
            /\ ptask_seq' = ptask_seq + 1
            /\ crontabs' = crontabs \cup {crontab_of(crontab_seq + 1, record)}
            /\ ptasks' = ptasks \cup {ptask_of(ptask_seq + 1, record, chat_id,
                                                crontab_seq + 1)}
            /\ IF requires_chat_id(record.event_type)
               THEN IF chats[c].exists
                    THEN /\ chats' = [chats EXCEPT
                                        ![c] = add_pair(@, crontab_seq + 1, ptask_seq + 1)]
                         /\ last' = Outcome("schedule_crontab_task", c, "ok",
                                            <<crontab_seq + 1, ptask_seq + 1, record>>)
                    ELSE /\ chats' = chats
                         /\ last' = Outcome("schedule_crontab_task", c, "raised", <<>>)
               ELSE /\ chats' = chats
                    /\ last' = Outcome("schedule_crontab_task", c, "ok",
                                       <<crontab_seq + 1, ptask_seq + 1, record>>)
            /\ UNCHANGED <<budgets, procVars, sweep>>

\* --------------------------------------------------------- ServiceKeeper
Range(f) == {f[i] : i \in DOMAIN f}

RECURSIVE ConcatIds(_, _)
ConcatIds(ids, field) ==
    IF ids = <<>> THEN <<>>
    ELSE (IF field = "schedule_ids" THEN chats[Head(ids)].schedule_ids
                                    ELSE chats[Head(ids)].task_ids)
         \o ConcatIds(Tail(ids), field)

RECURSIVE SortedSeq(_)
SortedSeq(S) ==
    IF S = {} THEN <<>>
    ELSE LET m == CHOOSE x \in S : \A y \in S : x <= y
         IN  <<m>> \o SortedSeq(S \ {m})

\* collect_ids_for_termination: every Chat row with
\* now - latest_contact > MAX_IDLE_DAYS, whatever its state.
\* (mutant) a chat exactly MAX_IDLE_DAYS days stale counts as idle.
is_idle_inclusive(row) == now - row.latest_contact >= MAX_IDLE_DAYS
is_idle(row) == now - row.latest_contact > MAX_IDLE_DAYS
\* (mutant) the query skips chats that are TERMINATED already.
idle_chat_ids_live ==
    SortedSeq({c \in ChatIds : chats[c].exists /\ is_idle(chats[c])
                                  /\ chats[c].state # "TERMINATED"})
idle_chat_ids == SortedSeq({c \in ChatIds : chats[c].exists /\ is_idle(chats[c])})
collect_ids_for_termination ==
    [chat_ids |-> idle_chat_ids,
     schedule_ids |-> ConcatIds(idle_chat_ids, "schedule_ids"),
     task_ids |-> ConcatIds(idle_chat_ids, "task_ids")]

\* batch_terminate: UPDATE chat SET state = TERMINATED WHERE chat_id IN ids;
\* DELETE FROM budget WHERE chat_id IN ids; one commit.
batch_terminate_chats(ids) ==
    [c \in ChatIds |-> IF c \in ids /\ chats[c].exists
                       THEN [chats[c] EXCEPT !.state = "TERMINATED"] ELSE chats[c]]
batch_terminate_budgets(ids) ==
    [c \in ChatIds |-> IF c \in ids THEN NoBudget ELSE budgets[c]]

\* batch_delete_schedule_objects: DELETE crontab rows by id, DELETE
\* periodic-task rows by id; one commit.
batch_delete_crontabs(schedule_ids) == {r \in crontabs : r.id \notin schedule_ids}
\* (mutant) the periodic-task table is emptied whenever ids are passed.
batch_delete_ptasks_all(task_ids) == IF task_ids = {} THEN ptasks ELSE {}
batch_delete_ptasks(task_ids) == {r \in ptasks : r.id \notin task_ids}

\* ---------------------------------------------- task_manager.tasks (sweep)
\* The sweep calls service_keeper.butch_terminate and .butch_delete, which
\* ServiceKeeper does not define; they are taken to be the specification's
\* batchTerminate and batchDeleteScheduleObjects, i.e. batch_terminate and
\* batch_delete_schedule_objects above.
butch_terminate(chat_ids) ==
    [chats |-> batch_terminate_chats(Range(chat_ids)),
     budgets |-> batch_terminate_budgets(Range(chat_ids))]
butch_delete(schedule_ids, task_ids) ==
    [crontabs |-> batch_delete_crontabs(Range(schedule_ids)),
     ptasks |-> batch_delete_ptasks(Range(task_ids))]

\* unfinished: the chat_ids of the run that last ended between its two
\* writes (the worker's record of the failed run).
SweepIdle ==
    [pc |-> "idle", chat_ids |-> <<>>, schedule_ids |-> <<>>, task_ids |-> <<>>,
     unfinished |-> <<>>]

\* chat_ids, schedule_ids, task_ids = service_keeper.collect_ids_for_termination()
SweepCollect ==
    /\ sweep.pc = "idle"
    /\ sweep' = [pc |-> "collected", unfinished |-> sweep.unfinished]
                   @@ collect_ids_for_termination
    /\ last' = Outcome("terminate_idle_task.collect", 0, "ok", <<>>)
    /\ UNCHANGED <<coreVars, schedVars, procVars>>

\* if chat_ids: service_keeper.butch_terminate(chat_ids)
SweepTerminate ==
    /\ sweep.pc = "collected"
    /\ IF sweep.chat_ids # <<>>
       THEN /\ chats' = butch_terminate(sweep.chat_ids).chats
            /\ budgets' = butch_terminate(sweep.chat_ids).budgets
       ELSE UNCHANGED coreVars
    /\ sweep' = [sweep EXCEPT !.pc = "terminated"]
    /\ last' = Outcome("terminate_idle_task.terminate", 0, "ok", <<>>)
    /\ UNCHANGED <<schedVars, procVars>>

\* if any([schedule_ids, task_ids]): service_keeper.butch_delete(schedule_ids, task_ids)
SweepDelete ==
    /\ sweep.pc = "terminated"
    /\ IF sweep.schedule_ids # <<>> \/ sweep.task_ids # <<>>
       THEN /\ crontabs' = butch_delete(sweep.schedule_ids, sweep.task_ids).crontabs
            /\ ptasks' = butch_delete(sweep.schedule_ids, sweep.task_ids).ptasks
       ELSE UNCHANGED <<crontabs, ptasks>>
    /\ sweep' = [SweepIdle EXCEPT !.unfinished = sweep.unfinished]
    /\ last' = Outcome("terminate_idle_task.delete", 0, "ok", <<>>)
    /\ UNCHANGED <<coreVars, crontab_seq, ptask_seq, procVars>>

\* A store call of the run raises (connection lost, statement refused): the
\* task catches nothing, so the run ends there; what an earlier step
\* committed stays committed, the failing step commits nothing.
SweepAbort ==
    /\ sweep.pc \in {"collected", "terminated"}
    /\ sweep' = [SweepIdle EXCEPT !.unfinished = IF sweep.pc = "terminated"
                                                THEN sweep.chat_ids
                                                ELSE sweep.unfinished]
    /\ last' = Outcome("terminate_idle_task.abort", 0, "raised", <<sweep.pc>>)
    /\ UNCHANGED <<coreVars, schedVars, procVars>>

\* ------------------------------------- task_manager.tasks (ledger tasks)
\* The tasks run in the task runner's worker process, on that process's
\* own ChatManager session; no statement of theirs can fail a commit.
\* refill_balance_task: ChatManager(chat_id).top_up(), which commits on its
\* own, then manager.reset_reminder().  ChatManager defines no
\* reset_reminder, so the attribute lookup raises AttributeError and the
\* task run ends with that exception, whatever top_up did.
RefillBalanceTask(c) ==
    /\ top_up(c, <<>>)
    /\ last' = Outcome("refill_balance_task", c, "raised", <<>>)
    /\ UNCHANGED <<chats, schedVars, procVars, sweep>>

\* annul_balance_task: ChatManager(chat_id).annul()
AnnulBalanceTask(c) == DoAnnul("annul_balance_task", c)

\* ------------------------------------------------------------ environment
Tick ==
    /\ now < MaxNow
    /\ now' = now + 1
    /\ last' = Outcome("tick", 0, "ok", <<>>)
    /\ UNCHANGED <<coreVars, schedVars, loaded_at, proc_uuid, failed, bot, sweep, messages, callers>>

\* The bot process starts again: core.models is imported anew, so the
\* column defaults datetime.now() and uuid4() are evaluated again,
\* core.managers creates its sessions anew and the Bot's dictionaries are
\* empty again.
Restart ==
    /\ proc_uuid < MaxRestarts
    /\ proc_uuid' = proc_uuid + 1
    /\ loaded_at' = now
    /\ failed' = NoFailure
    /\ bot' = NoBot
    /\ last' = Outcome("restart", 0, "ok", <<>>)
    /\ UNCHANGED <<coreVars, schedVars, now, sweep, messages, callers>>

\* The ServiceKeeper operations called on their own.
BatchTerminate(ids) ==
    /\ chats' = batch_terminate_chats(ids)
    /\ budgets' = batch_terminate_budgets(ids)
    /\ last' = Outcome("batch_terminate", 0, "ok", SortedSeq(ids))
    /\ UNCHANGED <<schedVars, procVars, sweep>>

CollectIdsForTermination ==
    /\ last' = Outcome("collect_ids_for_termination", 0, "ok",
                       <<collect_ids_for_termination.chat_ids,
                         collect_ids_for_termination.schedule_ids,
                         collect_ids_for_termination.task_ids>>)
    /\ UNCHANGED <<coreVars, schedVars, procVars, sweep>>

BatchDeleteScheduleObjects(schedule_ids, task_ids) ==
    /\ crontabs' = batch_delete_crontabs(schedule_ids)
    /\ ptasks' = batch_delete_ptasks(task_ids)
    /\ last' = Outcome("batch_delete_schedule_objects", 0, "ok",
                       <<SortedSeq(schedule_ids), SortedSeq(task_ids)>>)
    /\ UNCHANGED <<coreVars, crontab_seq, ptask_seq, procVars, sweep>>

\* ---------------------------------------------------------- specifications
PairIds == {1, 2}
DailyEntries == {e \in ScheduleEntries : e.basis = "DAILY"}

\* The ledger: ChatManager's operations, the two ledger tasks and the
\* reaper's termination, on two chats served by one run of the bot.
Next ==
    \/ \E c \in ChatIds, r \in Amounts, s \in Opt(Amounts) : Engage(c, r, s)
    \/ \E c \in ChatIds : GetBalance(c)
    \/ \E c \in ChatIds, a \in Amounts : Spend(c, a)
    \/ \E c \in ChatIds, a \in Opt(Amounts) : TopUp(c, a)
    \/ \E c \in ChatIds : Annul(c)
    \/ \E c \in ChatIds, a \in Amounts : ChangeReplenishment(c, a)
    \/ \E c \in ChatIds : SetConfigured(c)
    \/ \E c \in ChatIds : SetTerminated(c)
    \/ \E c \in ChatIds : RefillBalanceTask(c)
    \/ \E c \in ChatIds : AnnulBalanceTask(c)
    \/ \E ids \in SUBSET ChatIds : BatchTerminate(ids)

Spec == Init /\ [][Next]_vars

\* handle_config_time: chat_manager.engage(Decimal(1000), Decimal(1000)).
EngageDefault == 1000
EngageAsBot(c) == Engage(c, EngageDefault, <<EngageDefault>>)

\* ------------------------------------------------------------ telegram.bot
\* One action per handler, taken when the update is dispatched to it: a text
\* message or a button press of chat c while current_handlers[c] names the
\* handler.  Messages sent to the chat are not part of the state.  An
\* exception that leaves a handler ends the processing of that update; what
\* the handler did before stays done.
config_finished == "config_finished"

NewConfig(event_type) ==
    [exists |-> TRUE, event_type |-> event_type, basis |-> "NONE",
     time |-> <<>>, day |-> <<>>]

\* A handler that writes to no store and ends with the Bot's dictionaries b.
BotOnly(op, c, how, value, b) ==
    /\ bot' = b
    /\ last' = Outcome(op, c, how, value)
    /\ UNCHANGED <<coreVars, schedVars, now, loaded_at, proc_uuid, failed, sweep, messages, callers>>

HandleFirstContact(c) ==
    BotOnly("handle_first_contact", c, "ok", <<>>,
            [bot EXCEPT !.current_handlers[c] = "EVENT_TYPE"])

\* ChatManager.get_state is called by handle_config_event_type and defined
\* nowhere; taken to be the read of the Chat row's state that the
\* specification's DONE transition consults.
get_state(c) == IF chats[c].exists THEN chats[c].state ELSE "NONE"

\* handle_config_event_type.  On config_finished only the CONFIGURED case
\* returns; the INITIAL and TERMINATED cases run on into the statements for
\* an event type: configs[chat_id] = ScheduleEntry(event_type=call.data) is
\* executed with the sentinel, then the message lookup {...}[call.data]
\* raises KeyError before current_handlers is set to BASIS.
HandleConfigEventType(c, data) ==
    /\ bot.current_handlers[c] = "EVENT_TYPE"
    /\ IF data = config_finished
       THEN IF c \notin bot.managers \/ failed.core
            THEN BotOnly("handle_config_event_type", c, "raised", <<data>>, bot)
            ELSE IF get_state(c) = "CONFIGURED"
            THEN BotOnly("handle_config_event_type", c, "ok", <<data>>,
                         [bot EXCEPT !.current_handlers[c] = "ON_DUTY"])
            ELSE BotOnly("handle_config_event_type", c, "raised", <<data>>,
                         [bot EXCEPT !.configs[c] = NewConfig(data)])
       ELSE BotOnly("handle_config_event_type", c, "ok", <<data>>,
                    [bot EXCEPT !.configs[c] = NewConfig(data),
                                !.current_handlers[c] = "BASIS"])

HandleConfigBasis(c, basis) ==
    /\ bot.current_handlers[c] = "BASIS"
    /\ IF ~bot.configs[c].exists
       THEN BotOnly("handle_config_basis", c, "raised", <<basis>>, bot)
       ELSE BotOnly("handle_config_basis", c, "ok", <<basis>>,
                    [bot EXCEPT !.configs[c].basis = basis,
                                !.current_handlers[c] =
                                    IF basis = "DAILY" THEN "TIME" ELSE basis])

\* The button carries a DayOfTheWeek member; ScheduleEntry.day's setter
\* validates it against the basis (DAY_OF_THE_WEEK here).
HandleConfigDayOfTheWeek(c, day) ==
    /\ bot.current_handlers[c] = "DAY_OF_THE_WEEK"
    /\ IF ~bot.configs[c].exists
       THEN BotOnly("handle_config_day_of_the_week", c, "raised", <<day>>, bot)
       ELSE BotOnly("handle_config_day_of_the_week", c, "ok", <<day>>,
                    [bot EXCEPT !.configs[c].day = <<day>>,
                                !.current_handlers[c] = "TIME"])

\* A text is the value it denotes: <<n>> for the decimal numeral of n, <<h,
\* m>> for "h:m", <<>> for a text that is neither.
\* int(message.text); assert 1 <= day <= 31
parse_day(text) ==
    IF Len(text) = 1 /\ 1 <= text[1] /\ text[1] <= 31 THEN text ELSE <<>>
\* datetime.strptime(time_str, '%H:%M').time()
parse_time(text) ==
    IF Len(text) = 2 /\ text[1] \in 0..23 /\ text[2] \in 0..59 THEN text ELSE <<>>

HandleConfigDayOfTheMonth(c, text) ==
    /\ bot.current_handlers[c] = "DAY_OF_THE_MONTH"
    /\ IF parse_day(text) = <<>>
       THEN BotOnly("handle_config_day_of_the_month", c, "ok", <<parse_day(text)>>, bot)
       ELSE IF ~bot.configs[c].exists
       THEN BotOnly("handle_config_day_of_the_month", c, "raised", <<parse_day(text)>>, bot)
       ELSE BotOnly("handle_config_day_of_the_month", c, "ok", <<parse_day(text)>>,
                    [bot EXCEPT !.configs[c].day = parse_day(text),
                                !.current_handlers[c] = "TIME"])

\* chat_manager.scheduler is read by handle_config_time; ChatManager sets
\* schedule_manager and no scheduler.  It is taken to be that
\* ScheduleManager, the specification's orchestrator of the chat: the task
\* name is built with the chat_id the call passes, None.
scheduler_task_name(record) == task_name(record, <<>>)

\* if schedule_entry.event_type == EventType.REPLENISHMENT: set_configured()
\* (mutant) every committed entry configures the chat.
configures_always(event_type) == TRUE
configures(event_type) == event_type = "REPLENISHMENT"

\* The ScheduleEntry popped from configs, as schedule_crontab_task reads it.
record_of(config) ==
    [event_type |-> config.event_type, basis |-> config.basis,
     time |-> config.time, day |-> config.day]

\* handle_config_time, statement by statement; the first call that raises
\* ends it, and `stage` names that call.
\*   self.configs[chat_id] raises KeyError when the chat has no entry;
\*   parse: on ValueError the prompt is repeated and the handler goes on
\*          (there is no return) with the entry's time still None;
\*   engage(Decimal(1000), Decimal(1000)) when no manager is cached, then
\*          the manager is cached;
\*   configs.pop(chat_id);
\*   scheduler.schedule_crontab_task(record=entry): record.time.minute
\*          raises on a None time, before the session is used;
\*   refresh_latest_contact();
\*   set_configured() for REPLENISHMENT; engage_reminder() for REMINDER,
\*          which ChatManager does not define (AttributeError);
\*   send_config_menu; current_handlers[chat_id] = EVENT_TYPE.
\* last.value is <<stage, the parsed time, the entry's event type, whether
\* engage was called>>.
HandleConfigTime(c, text) ==
    /\ bot.current_handlers[c] = "TIME"
    /\ crontab_seq < MaxSchedules
    /\ LET config == IF parse_time(text) = <<>> THEN bot.configs[c]
                     ELSE [bot.configs[c] EXCEPT !.time = parse_time(text)]
           record == record_of(config)
           cached == c \in bot.managers
           parsed == [bot EXCEPT !.configs[c] = config]
           popped == [bot EXCEPT !.configs[c] = NoConfig, !.managers = @ \cup {c}]
           done == [popped EXCEPT !.current_handlers[c] = "EVENT_TYPE"]
           engaged_chats == IF cached THEN chats ELSE [chats EXCEPT ![c] = NewChat]
           engaged_budgets ==
               IF cached THEN budgets
               ELSE [budgets EXCEPT ![c] = NewBudget(EngageDefault, <<EngageDefault>>)]
           refreshed ==
               [engaged_chats EXCEPT
                   ![c] = IF @.exists THEN [@ EXCEPT !.latest_contact = now] ELSE @]
           configured ==
               [refreshed EXCEPT
                   ![c] = IF @.exists THEN [@ EXCEPT !.state = set_configured_state(@)]
                          ELSE @]
           Ends(how, stage, b, ch, bu, scheduled, f) ==
               /\ last' = Outcome("handle_config_time", c, how,
                                  <<stage, parse_time(text), record.event_type, ~cached>>)
               /\ bot' = b
               /\ chats' = ch
               /\ budgets' = bu
               /\ failed' = f
               /\ IF scheduled
                  THEN /\ crontab_seq' = crontab_seq + 1
                       /\ ptask_seq' = ptask_seq + 1
                       /\ crontabs' = crontabs \cup {crontab_of(crontab_seq + 1, record)}
                       /\ ptasks' = ptasks \cup
                             {ptask_of(ptask_seq + 1, record, <<>>, crontab_seq + 1)}
                  ELSE UNCHANGED schedVars
               /\ UNCHANGED <<now, loaded_at, proc_uuid, sweep, messages, callers>>
       IN  IF ~bot.configs[c].exists
           THEN Ends("raised", "configs", bot, chats, budgets, FALSE, failed)
           ELSE IF ~cached /\ failed.core
           THEN Ends("raised", "engage", parsed, chats, budgets, FALSE, failed)
           ELSE IF ~cached /\ engage_conflict(c)
           THEN Ends("raised", "engage", parsed, chats, budgets, FALSE,
                     [failed EXCEPT !.core = TRUE])
           ELSE IF record.time = <<>> \/ failed.schedule
           THEN Ends("raised", "schedule_crontab_task", popped,
                     engaged_chats, engaged_budgets, FALSE, failed)
           ELSE IF \E t \in ptasks : t.name = scheduler_task_name(record)
           THEN Ends("raised", "schedule_crontab_task", popped,
                     engaged_chats, engaged_budgets, FALSE,
                     [failed EXCEPT !.schedule = TRUE])
           ELSE IF failed.core
           THEN Ends("raised", "refresh_latest_contact", popped,
                     engaged_chats, engaged_budgets, TRUE, failed)
           ELSE IF configures(record.event_type)
           THEN Ends("ok", "done", done, configured, engaged_budgets, TRUE, failed)
           ELSE IF record.event_type = "REMINDER"
           THEN Ends("raised", "engage_reminder", popped,
                     refreshed, engaged_budgets, TRUE, failed)
           ELSE Ends("ok", "done", done, refreshed, engaged_budgets, TRUE, failed)

\* The texts and buttons the dialogue is driven with.
DayTexts == {<<0>>, <<31>>, <<32>>, <<>>}
TimeTexts == {<<9, 0>>, <<24, 0>>, <<>>}
Buttons == EventTypes \cup {config_finished}

\* The dialogue of one chat, the reaper's termination beside it, and the
\* bot starting again.
DialogueChats == {1}

DialogueNext ==
    \/ \E c \in DialogueChats : HandleFirstContact(c)
    \/ \E c \in DialogueChats, data \in Buttons : HandleConfigEventType(c, data)
    \/ \E c \in DialogueChats, basis \in Bases : HandleConfigBasis(c, basis)
    \/ \E c \in DialogueChats : HandleConfigDayOfTheWeek(c, "SUNDAY")
    \/ \E c \in DialogueChats, text \in DayTexts : HandleConfigDayOfTheMonth(c, text)
    \/ \E c \in DialogueChats, text \in TimeTexts : HandleConfigTime(c, text)
    \/ \E c \in DialogueChats : BatchTerminate({c})
    \/ Restart

SpecDialogue == Init /\ [][DialogueNext]_vars

\* terminate_idle_task run from start to end with no other process acting
\* in between: collect, terminate the collected chats, delete the collected
\* schedule objects.
TerminateIdleTask ==
    /\ sweep.pc = "idle"
    /\ LET ids == collect_ids_for_termination
           core == butch_terminate(ids.chat_ids)
           schedule == butch_delete(ids.schedule_ids, ids.task_ids)
       IN /\ chats' = IF ids.chat_ids # <<>> THEN core.chats ELSE chats
          /\ budgets' = IF ids.chat_ids # <<>> THEN core.budgets ELSE budgets
          /\ crontabs' = IF ids.schedule_ids # <<>> \/ ids.task_ids # <<>>
                         THEN schedule.crontabs ELSE crontabs
          /\ ptasks' = IF ids.schedule_ids # <<>> \/ ids.task_ids # <<>>
                       THEN schedule.ptasks ELSE ptasks
          /\ last' = Outcome("terminate_idle_task", 0, "ok", ids.chat_ids)
    /\ UNCHANGED <<crontab_seq, ptask_seq, procVars, sweep>>

\* Reaping: the dialogue of one chat, time passing, the whole sweep, and
\* the balance read afterwards.
ReapNext ==
    \/ \E c \in DialogueChats : HandleFirstContact(c)
    \/ \E c \in DialogueChats, data \in EventTypes : HandleConfigEventType(c, data)
    \/ \E c \in DialogueChats : HandleConfigBasis(c, "DAILY")
    \/ \E c \in DialogueChats : HandleConfigTime(c, <<9, 0>>)
    \/ \E c \in DialogueChats : GetBalance(c)
    \/ TerminateIdleTask
    \/ Tick

SpecReap == Init /\ [][ReapNext]_vars

\* The id arrays: pairs are recorded on chats, across restarts of the bot.
PairsNext ==
    \/ \E c \in ChatIds : EngageAsBot(c)
    \/ \E c \in ChatIds, s \in PairIds, t \in PairIds : AddSchedulerObjectsPair(c, s, t)
    \/ Restart

SpecPairs == Init /\ [][PairsNext]_vars

\* The orchestration: schedules are created for engaged chats.
ScheduleNext ==
    \/ \E c \in ChatIds : EngageAsBot(c)
    \/ \E c \in ChatIds : SetConfigured(c)
    \/ \E c \in ChatIds, e \in DailyEntries :
          \E i \in {<<>>, <<c>>} : ScheduleCrontabTask(c, e, i)
    \/ Restart

SpecSchedule == Init /\ [][ScheduleNext]_vars

\* The reaper: chats age, are refreshed, get a replenishment schedule whose
\* id pair is recorded on them, and the sweep runs step by step beside it.
Replenishments == {e \in DailyEntries : e.event_type = "REPLENISHMENT"}
Recorded(c, t) ==
    \E i \in DOMAIN chats[c].task_ids :
        chats[c].task_ids[i] = t.id /\ chats[c].schedule_ids[i] = t.crontab_id

SweepNext ==
    \/ \E c \in ChatIds : EngageAsBot(c)
    \/ \E c \in ChatIds : RefreshLatestContact(c)
    \/ \E c \in ChatIds, e \in Replenishments : ScheduleCrontabTask(c, e, <<c>>)
    \/ \E c \in ChatIds, t \in ptasks :
          /\ t.name[2] = <<c>>
          /\ ~Recorded(c, t)
          /\ AddSchedulerObjectsPair(c, t.crontab_id, t.id)
    \/ SweepCollect
    \/ SweepTerminate
    \/ SweepDelete
    \/ Tick

SpecSweep == Init /\ [][SweepNext]_vars

\* The sweep with failing runs, for one chat whose schedules are recorded
\* on it.  celery beat triggers the task again and again and a store call
\* does not fail forever: a run that is started again and again gets
\* through each of its writes.
RetryNext ==
    \/ \E c \in DialogueChats : EngageAsBot(c)
    \/ \E c \in DialogueChats : RefreshLatestContact(c)
    \/ \E c \in DialogueChats, e \in Replenishments : ScheduleCrontabTask(c, e, <<c>>)
    \/ \E c \in DialogueChats, t \in ptasks :
          /\ t.name[2] = <<c>>
          /\ ~Recorded(c, t)
          /\ AddSchedulerObjectsPair(c, t.crontab_id, t.id)
    \/ SweepCollect
    \/ SweepTerminate
    \/ SweepDelete
    \/ SweepAbort
    \/ Tick

SpecRetry ==
    /\ Init /\ [][RetryNext]_vars
    /\ WF_vars(SweepCollect) /\ SF_vars(SweepTerminate) /\ SF_vars(SweepDelete)

\* The reaper's query: chats engaged by successive runs of the bot age, are
\* refreshed and have id pairs recorded on them.
\* The ids of the next pair recorded on chat c: schedule ids are numbered
\* per chat, task ids lie above every schedule id.
NextPairId(c) == (c - 1) * MaxPairs + Len(chats[c].schedule_ids) + 1

CollectNext ==
    \/ \E c \in ChatIds : EngageAsBot(c)
    \/ \E c \in ChatIds : RefreshLatestContact(c)
    \/ \E c \in ChatIds :
          AddSchedulerObjectsPair(c, NextPairId(c), NextPairId(c) + MaxPairs)
    \/ CollectIdsForTermination
    \/ Tick
    \/ Restart

SpecCollect == Init /\ [][CollectNext]_vars

\* The ServiceKeeper's two batch operations, called with any ids on stores
\* that hold engaged chats and their replenishment schedules.
RowIds == 1..MaxSchedules

BatchNext ==
    \/ \E c \in ChatIds : EngageAsBot(c)
    \/ \E c \in ChatIds, e \in Replenishments : ScheduleCrontabTask(c, e, <<c>>)
    \/ \E ids \in SUBSET ChatIds : BatchTerminate(ids)
    \/ \E schedule_ids \in SUBSET RowIds, task_ids \in SUBSET RowIds :
          BatchDeleteScheduleObjects(schedule_ids, task_ids)

SpecBatch == Init /\ [][BatchNext]_vars

\* The CrontabSchedule derivation: entries of every basis, weekday, first
\* and last day of the month are scheduled.
CrontabTimes == {<<23, 59>>}
CrontabDays(basis) ==
    CASE basis = "DAILY" -> {<<>>}
      [] basis = "DAY_OF_THE_WEEK" -> {<<WeekDays[i]>> : i \in 1..7}
      [] basis = "DAY_OF_THE_MONTH" -> {<<1>>, <<31>>}
CrontabEntries ==
    UNION {{[event_type |-> e, basis |-> b, time |-> t, day |-> d] :
              e \in EventTypes, t \in CrontabTimes, d \in CrontabDays(b)} : b \in Bases}

CrontabNext ==
    \E c \in ChatIds, e \in CrontabEntries : ScheduleCrontabTask(c, e, <<c>>)

SpecCrontab == Init /\ [][CrontabNext]_vars
\* ------------------------------------------------------------------ claims
Chat(c) == chats[c]
Budget(c) == budgets[c]
FinancialOps == {"spend", "top_up", "annul", "change_replenishment",
                 "refill_balance_task", "annul_balance_task"}

\* C1: once a chat is TERMINATED it stays TERMINATED in every later state,
\* and set_configured changes the state only of an INITIAL chat.
C1_TerminatedIsTerminal ==
    [][\A c \in ChatIds :
          /\ (Chat(c).exists /\ Chat(c).state = "TERMINATED")
                => chats'[c].state = "TERMINATED"
          /\ (last'.op = "set_configured" /\ last'.chat = c
                /\ Chat(c).exists /\ Chat(c).state # "INITIAL")
                => chats'[c] = chats[c]]_vars

\* C2: spend, top_up, annul and change_replenishment (also when called by
\* refill_balance_task / annul_balance_task) on a chat that is INITIAL or
\* TERMINATED leave every Budget as it was and end by the rejection return,
\* not by an exception; they change a Budget only of a CONFIGURED chat.
C2_RejectedUnlessConfigured ==
    [][last'.op \in FinancialOps =>
          LET c == last'.chat IN
          /\ (Chat(c).exists /\ Chat(c).state \in {"INITIAL", "TERMINATED"})
                => (budgets' = budgets /\ last'.outcome = "rejected")
          /\ budgets' # budgets
                => (Chat(c).exists /\ Chat(c).state = "CONFIGURED")]_vars

C4_TopUpByAmount ==
    [][(last'.op = "top_up" /\ last'.outcome = "ok" /\ Budget(last'.chat).exists) =>
          LET c == last'.chat
              a == last'.value
          IN  /\ budgets'[c].balance =
                    Budget(c).balance + (IF a = <<>> THEN Budget(c).replenishment ELSE a[1])
              /\ budgets'[c].replenishment = Budget(c).replenishment
              /\ chats' = chats]_vars

\* C5: on a CONFIGURED chat spend(a) lowers the balance by exactly a, also
\* below zero; it is not turned away.
C5_SpendExact ==
    [][(last'.op = "spend" /\ Chat(last'.chat).exists
          /\ Chat(last'.chat).state = "CONFIGURED" /\ Budget(last'.chat).exists) =>
          LET c == last'.chat IN
          /\ last'.outcome = "ok"
          /\ budgets'[c].balance = Budget(c).balance - last'.value[1]
          /\ budgets'[c].replenishment = Budget(c).replenishment]_vars

\* C5 witness: a spend left a negative balance.
C5_Witness ==
    /\ last.op = "spend" /\ last.outcome = "ok" /\ last.value[1] > 0
    /\ Budget(last.chat).exists /\ Budget(last.chat).balance < 0

\* C6: on a CONFIGURED chat annul sets the balance to 0 whatever it was,
\* leaves replenishment and the chat as they were, and a second annul
\* changes nothing more.
C6_AnnulToZero ==
    [][(last'.op = "annul" /\ Chat(last'.chat).exists
          /\ Chat(last'.chat).state = "CONFIGURED" /\ Budget(last'.chat).exists) =>
          LET c == last'.chat IN
          /\ budgets'[c].balance = 0
          /\ budgets'[c].replenishment = Budget(c).replenishment
          /\ chats' = chats
          /\ last'.outcome = "ok"
          /\ annul_balance(budgets'[c]) = budgets'[c].balance]_vars

\* C6 witness: annul ran on a chat whose replenishment is not zero and left
\* the balance at zero.
C6_Witness ==
    /\ last.op = "annul" /\ last.outcome = "ok"
    /\ Budget(last.chat).exists /\ Budget(last.chat).balance = 0
    /\ Budget(last.chat).replenishment # 0

\* C7: engage for a chat id that already has a Chat row ends in an error and
\* leaves every Chat and Budget row as it was.
C7_EngageTwiceFails ==
    [][(last'.op = "engage" /\ Chat(last'.chat).exists) =>
          (last'.outcome = "raised" /\ UNCHANGED coreVars)]_vars

\* C7 witness: engage was called for an existing, already configured chat
\* and raised.
C7_Witness ==
    /\ last.op = "engage" /\ last.outcome = "raised"
    /\ Chat(last.chat).exists /\ Chat(last.chat).state = "CONFIGURED"
    /\ Budget(last.chat).exists

\* C8: the two id arrays of every chat have equal length, and whenever one
\* changes both grow by one element, the pair of one
\* add_scheduler_objects_pair call.
C8_ParallelArrays ==
    [][\A c \in ChatIds :
          /\ Len(chats'[c].schedule_ids) = Len(chats'[c].task_ids)
          /\ (chats'[c].schedule_ids # Chat(c).schedule_ids
                \/ chats'[c].task_ids # Chat(c).task_ids)
             => /\ last'.op = "add_scheduler_objects_pair" /\ last'.chat = c
                /\ chats'[c].schedule_ids = Append(Chat(c).schedule_ids, last'.value[1])
                /\ chats'[c].task_ids = Append(Chat(c).task_ids, last'.value[2])]_vars

\* C8 witness: a chat holds two pairs whose schedule id and task id differ.
C8_Witness ==
    \E c \in ChatIds :
        /\ Len(Chat(c).schedule_ids) = 2 /\ Len(Chat(c).task_ids) = 2
        /\ Chat(c).schedule_ids[1] # Chat(c).task_ids[1]
        /\ Chat(c).schedule_ids[2] # Chat(c).task_ids[2]

\* C9: every successful schedule_crontab_task call of a chat's manager
\* appends the generated CrontabSchedule / PeriodicTask ids to that chat's
\* schedule_ids / task_ids (so N calls leave length N, in call order).
C9_IdsRecordedInCallOrder ==
    [][(last'.op = "schedule_crontab_task" /\ last'.outcome = "ok"
          /\ Chat(last'.chat).exists) =>
          LET c == last'.chat IN
          /\ chats'[c].schedule_ids = Append(Chat(c).schedule_ids, last'.value[1])
          /\ chats'[c].task_ids = Append(Chat(c).task_ids, last'.value[2])]_vars

\* C10: while a sweep run is between its steps, no chat it has set
\* TERMINATED still lists a CrontabSchedule or PeriodicTask row that exists
\* in the schedule store.
C10_DeleteBeforeTerminate ==
    sweep.pc = "terminated" =>
        \A c \in Range(sweep.chat_ids) :
            /\ ~\E r \in crontabs : r.id \in Range(Chat(c).schedule_ids)
            /\ ~\E r \in ptasks : r.id \in Range(Chat(c).task_ids)

\* The concatenation of a sequence of id arrays.
RECURSIVE Flatten(_)
Flatten(arrays) ==
    IF arrays = <<>> THEN <<>> ELSE Head(arrays) \o Flatten(Tail(arrays))

\* C13: collect_ids_for_termination returns exactly the chats whose
\* latest_contact lies strictly more than MAX_IDLE_DAYS days back, each once,
\* with the concatenation of exactly those chats' schedule_ids and task_ids,
\* and writes to neither store.
C13_CollectExactlyIdle ==
    [][last'.op = "collect_ids_for_termination" =>
          LET idle == {c \in ChatIds : Chat(c).exists
                          /\ now - Chat(c).latest_contact > MAX_IDLE_DAYS}
              got == last'.value[1]
          IN  /\ Range(got) = idle
              /\ Len(got) = Cardinality(idle)
              /\ last'.value[2] =
                    Flatten([i \in DOMAIN got |-> Chat(got[i]).schedule_ids])
              /\ last'.value[3] =
                    Flatten([i \in DOMAIN got |-> Chat(got[i]).task_ids])
              /\ UNCHANGED <<coreVars, schedVars>>]_vars

\* C13 witness: a collect returned a chat that is MAX_IDLE_DAYS + 1 days
\* stale together with its recorded ids, and left out a chat that is
\* exactly MAX_IDLE_DAYS days stale.
C13_Witness ==
    /\ last.op = "collect_ids_for_termination"
    /\ \E c \in Range(last.value[1]) :
          /\ now - Chat(c).latest_contact = MAX_IDLE_DAYS + 1
          /\ Chat(c).schedule_ids # <<>>
          /\ last.value[2] # <<>>
    /\ \E d \in ChatIds :
          /\ Chat(d).exists /\ now - Chat(d).latest_contact = MAX_IDLE_DAYS
          /\ d \notin Range(last.value[1])

\* C14: batch_terminate and batch_delete_schedule_objects end without an
\* error and do their work in one application: afterwards every chat passed
\* is TERMINATED and owns no Budget, every row passed is absent, and applied
\* to stores that are already so they change nothing; chats, budgets and
\* schedule rows whose ids were not passed are left as they were.
C14_BatchOpsIdempotent ==
    [][/\ last'.op = "batch_terminate" =>
            LET ids == Range(last'.value) IN
            /\ last'.outcome = "ok"
            /\ \A c \in ids : /\ chats'[c].exists => chats'[c].state = "TERMINATED"
                              /\ ~budgets'[c].exists
            /\ (\A c \in ids : /\ Chat(c).exists => Chat(c).state = "TERMINATED"
                               /\ ~Budget(c).exists)
                  => UNCHANGED coreVars
            /\ \A c \in ChatIds \ ids : chats'[c] = Chat(c) /\ budgets'[c] = Budget(c)
            /\ UNCHANGED schedVars
       /\ last'.op = "batch_delete_schedule_objects" =>
            LET schedule_ids == Range(last'.value[1])
                task_ids == Range(last'.value[2])
            IN  /\ last'.outcome = "ok"
                /\ crontabs' = {r \in crontabs : r.id \notin schedule_ids}
                /\ ptasks' = {r \in ptasks : r.id \notin task_ids}
                /\ ((\A r \in crontabs : r.id \notin schedule_ids)
                      /\ (\A r \in ptasks : r.id \notin task_ids))
                      => UNCHANGED <<crontabs, ptasks>>
                /\ UNCHANGED <<coreVars, crontab_seq, ptask_seq>>]_vars

\* C14 witness: batch_delete_schedule_objects ran for ids that were issued
\* and are absent now while a row whose id was not passed is still there,
\* and a chat is TERMINATED and without a Budget.
C14_Witness ==
    /\ last.op = "batch_delete_schedule_objects"
    /\ last.value[1] # <<>> /\ last.value[2] # <<>>
    /\ \A i \in Range(last.value[1]) : i <= crontab_seq /\ \A r \in crontabs : r.id # i
    /\ \A i \in Range(last.value[2]) : i <= ptask_seq /\ \A r \in ptasks : r.id # i
    /\ crontabs # {} /\ ptasks # {}
    /\ \E c \in ChatIds :
          Chat(c).exists /\ Chat(c).state = "TERMINATED" /\ ~Budget(c).exists

\* C19: every chat whose state is INITIAL or CONFIGURED owns its Budget row,
\* and a chat that batch_terminate has just set TERMINATED has lost its
\* Budget in that same step.
C19_OneBudgetWhileLive ==
    /\ \A c \in ChatIds :
          (Chat(c).exists /\ Chat(c).state \in {"INITIAL", "CONFIGURED"})
             => Budget(c).exists
    /\ last.op = "batch_terminate" =>
          \A c \in Range(last.value) :
             Chat(c).exists => (Chat(c).state = "TERMINATED" /\ ~Budget(c).exists)

\* Monday = 1 ... Sunday = 7.
WeekdayOrdinal ==
    [d \in {"MONDAY", "TUESDAY", "WEDNESDAY", "THURSDAY", "FRIDAY", "SATURDAY", "SUNDAY"} |->
        CASE d = "MONDAY" -> 1 [] d = "TUESDAY" -> 2 [] d = "WEDNESDAY" -> 3
          [] d = "THURSDAY" -> 4 [] d = "FRIDAY" -> 5 [] d = "SATURDAY" -> 6
          [] d = "SUNDAY" -> 7]

\* C20: the CrontabSchedule row a successful schedule_crontab_task adds has
\* the entry's hour and minute; for DAILY neither day_of_week nor
\* day_of_month is set, for DAY_OF_THE_WEEK day_of_week is the weekday's
\* ordinal (Monday = 1 ... Sunday = 7) and day_of_month is not set, for
\* DAY_OF_THE_MONTH day_of_month is the entry's day and day_of_week is not
\* set.
C20_CrontabFromBasis ==
    [][(last'.op = "schedule_crontab_task" /\ last'.outcome = "ok") =>
          LET entry == last'.value[3] IN
          \E row \in crontabs' :
             /\ row.id = last'.value[1]
             /\ crontabs' = crontabs \cup {row}
             /\ row \notin crontabs
             /\ row.hour = entry.time[1]
             /\ row.minute = entry.time[2]
             /\ entry.basis = "DAILY"
                   => (row.day_of_week = <<>> /\ row.day_of_month = <<>>)
             /\ entry.basis = "DAY_OF_THE_WEEK"
                   => (row.day_of_week = <<WeekdayOrdinal[entry.day[1]]>>
                         /\ row.day_of_month = <<>>)
             /\ entry.basis = "DAY_OF_THE_MONTH"
                   => (row.day_of_month = entry.day /\ row.day_of_week = <<>>)]_vars

\* C20 witness: the store holds the row of a Sunday entry (day_of_week 7)
\* and the row of an entry for the 31st, both created by calls that
\* succeeded.
C20_Witness ==
    /\ last.op = "schedule_crontab_task" /\ last.outcome = "ok"
    /\ \E r \in crontabs : r.day_of_week = <<7>> /\ r.day_of_month = <<>>
    /\ \E r \in crontabs : r.day_of_month = <<31>> /\ r.day_of_week = <<>>
                              /\ r.hour = 23 /\ r.minute = 59

ManagerOps == {"engage", "get_balance", "spend", "top_up", "annul",
               "change_replenishment", "refresh_latest_contact", "set_configured",
               "set_terminated", "add_scheduler_objects_pair", "schedule_crontab_task"}

\* C18: a ChatManager or ScheduleManager operation that fails leaves the
\* committed contents of both stores as they were, does not end with an
\* exception for its caller, and leaves its session usable, so that the next
\* valid operation on the store succeeds.
C18_FailureContained ==
    [][last'.op \in ManagerOps =>
          /\ last'.outcome = "raised" => UNCHANGED <<coreVars, schedVars>>
          /\ last'.outcome # "raised"
          /\ failed' = NoFailure]_vars

\* C15: a text that is no valid day (in DAY_OF_THE_MONTH) or no valid HH:MM
\* (in TIME) leaves the chat's handler, its partial ScheduleEntry and the
\* manager cache as they were and writes to neither store: no engage,
\* schedule_crontab_task, refresh_latest_contact or set_configured happens.
C15_InvalidInputKeepsTurn ==
    [][((last'.op = "handle_config_day_of_the_month" /\ last'.value[1] = <<>>)
          \/ (last'.op = "handle_config_time" /\ last'.value[2] = <<>>)) =>
          /\ bot' = bot
          /\ UNCHANGED <<coreVars, schedVars>>]_vars

\* C16: config_finished received in EVENT_TYPE starts no entry: the chat's
\* configs entry is as before and the handler is not BASIS; for a CONFIGURED
\* chat the handler becomes ON_DUTY, for an INITIAL chat it stays
\* EVENT_TYPE, for a TERMINATED chat it is not changed; no store is written.
C16_DoneStartsNoEntry ==
    [][(last'.op = "handle_config_event_type" /\ last'.value[1] = config_finished) =>
          LET c == last'.chat IN
          /\ bot'.configs[c] = bot.configs[c]
          /\ bot'.current_handlers[c] # "BASIS"
          /\ (Chat(c).exists /\ Chat(c).state = "CONFIGURED" /\ c \in bot.managers)
                => bot'.current_handlers[c] = "ON_DUTY"
          /\ (Chat(c).exists /\ Chat(c).state \in {"INITIAL", "TERMINATED"})
                => bot'.current_handlers[c] = bot.current_handlers[c]
          /\ UNCHANGED <<coreVars, schedVars>>]_vars

\* C17: a chat becomes CONFIGURED only in a handle_config_time that has just
\* persisted a REPLENISHMENT CrontabSchedule and PeriodicTask; an ANNULMENT
\* or REMINDER entry, and a REPLENISHMENT entry whose schedule_crontab_task
\* raised, leave the state as it was.
C17_ConfiguredOnlyAfterReplenishment ==
    [][\A c \in ChatIds :
          /\ (chats'[c].state = "CONFIGURED" /\ Chat(c).state # "CONFIGURED") =>
                /\ last'.op = "handle_config_time" /\ last'.chat = c
                /\ last'.value[3] = "REPLENISHMENT"
                /\ \E t \in ptasks' \ ptasks :
                      /\ t.task = "REPLENISHMENT"
                      /\ \E r \in crontabs' \ crontabs : r.id = t.crontab_id
          /\ (last'.op = "handle_config_time" /\ last'.chat = c
                /\ (last'.value[3] # "REPLENISHMENT"
                      \/ last'.value[1] \in {"engage", "schedule_crontab_task"}))
                => chats'[c].state = Chat(c).state]_vars

\* C17 witness: a REPLENISHMENT entry was committed and configured the chat,
\* whose schedule rows are in the store.
C17_Witness ==
    /\ last.op = "handle_config_time" /\ last.outcome = "ok"
    /\ last.value[3] = "REPLENISHMENT"
    /\ Chat(last.chat).exists /\ Chat(last.chat).state = "CONFIGURED"
    /\ \E t \in ptasks : t.task = "REPLENISHMENT" /\ t.id = ptask_seq

\* C12: a run of terminate_idle_task leaves every chat it collected
\* TERMINATED and without a Budget row, and leaves in the schedule store no
\* PeriodicTask and no CrontabSchedule that the chat's dialogue had created
\* through schedule_crontab_task; get_balance on a TERMINATED chat is
\* rejected.
C12_SweepReapsChat ==
    [][/\ last'.op = "terminate_idle_task" =>
             \A c \in Range(last'.value) \cap DialogueChats :
                /\ chats'[c].state = "TERMINATED"
                /\ ~budgets'[c].exists
                /\ \A t \in ptasks :
                      /\ t \notin ptasks'
                      /\ \A r \in crontabs : r.id = t.crontab_id => r \notin crontabs'
       /\ (last'.op = "get_balance" /\ chats'[last'.chat].exists
             /\ chats'[last'.chat].state = "TERMINATED")
             => last'.outcome = "rejected"]_vars

\* The chat is reaped: TERMINATED, no Budget, and no row left in the
\* schedule store under an id recorded on the chat.
Reaped(c) ==
    /\ Chat(c).exists /\ Chat(c).state = "TERMINATED"
    /\ ~Budget(c).exists
    /\ \A i \in DOMAIN Chat(c).schedule_ids :
          /\ \A r \in crontabs : r.id # Chat(c).schedule_ids[i]
          /\ \A t \in ptasks : t.id # Chat(c).task_ids[i]

DayInts == {0, 1, 31, 32}
DayStrs == {"MONDAY", "SUNDAY", "FUNDAY"}
DayValues ==
    {[kind |-> "int", int |-> n, str |-> ""] : n \in DayInts}
      \cup {[kind |-> "str", int |-> 0, str |-> s] : s \in DayStrs}
      \cup {[kind |-> "member", int |-> 0, str |-> s] : s \in {"MONDAY", "SUNDAY"}}
      \cup {[kind |-> "float", int |-> 1, str |-> ""]}

\* DayOfTheWeek(value): the member itself, or the member whose _value_ is
\* the string; ValueError for everything else.
is_day_of_the_week(day) ==
    \/ day.kind = "member"
    \/ day.kind = "str" /\ \E i \in DOMAIN WeekDays : WeekDays[i] = day.str

\* ScheduleEntry._validate_day: what the assignment of a non-None day ends
\* with.  In the DAY_OF_THE_WEEK case the handler of ValueError builds its
\* message with ', '.join(DayOfTheWeek): the items are Enum members, not
\* str, so join raises TypeError and the AttributeError is never raised.
\* With basis None no case matches and nothing is raised.
validate_day(basis, day) ==
    CASE basis = "DAILY" -> "AttributeError"
      [] basis = "DAY_OF_THE_MONTH" ->
            IF day.kind = "int" /\ 1 <= day.int /\ day.int <= 31
            THEN "ok" ELSE "AttributeError"
      [] basis = "DAY_OF_THE_WEEK" ->
            IF is_day_of_the_week(day) THEN "ok" ELSE "TypeError"
      [] OTHER -> "ok"

\* entry.day = value on the ScheduleEntry held for chat c: the setter stores
\* the value, then validates it.
SetDay(c, value) ==
    /\ bot.configs[c].exists
    /\ LET how == validate_day(bot.configs[c].basis, value)
       IN BotOnly("set_day", c, IF how = "ok" THEN "ok" ELSE "raised",
                  <<bot.configs[c].basis, value, how>>,
                  [bot EXCEPT !.configs[c].day = <<value>>])

\* ScheduleEntry objects of every event type and basis, and assignments to
\* their day.
DayNext ==
    \/ \E c \in DialogueChats : HandleFirstContact(c)
    \/ \E c \in DialogueChats, data \in EventTypes : HandleConfigEventType(c, data)
    \/ \E c \in DialogueChats, basis \in Bases : HandleConfigBasis(c, basis)
    \/ \E c \in DialogueChats, value \in DayValues : SetDay(c, value)

SpecDay == Init /\ [][DayNext]_vars

\* The day is consistent with the basis.
DayConsistent(basis, day) ==
    CASE basis = "DAILY" -> FALSE
      [] basis = "DAY_OF_THE_MONTH" -> day.kind = "int" /\ day.int \in 1..31
      [] basis = "DAY_OF_THE_WEEK" ->
            \/ day.kind = "member"
            \/ day.kind = "str" /\ day.str \in Range(WeekDays)
      [] OTHER -> TRUE

\* C21: assigning a day to an entry with a basis succeeds exactly when the
\* day is consistent with the basis (never for DAILY, an int in 1..31 for
\* DAY_OF_THE_MONTH, a weekday for DAY_OF_THE_WEEK), and every failure is the
\* validation error, AttributeError.
C21_DayValidatedAgainstBasis ==
    (last.op = "set_day" /\ last.value[1] \in Bases) =>
        /\ (last.outcome = "ok") <=> DayConsistent(last.value[1], last.value[2])
        /\ last.outcome # "ok" => last.value[3] = "AttributeError"

\* ------------------------------------------- ServiceKeeper (message table)
\* config.CRITICAL_ERROR_MSG
CRITICAL_ERROR_MSG == "Critical Server Error occurred. Please come back later!"

\* upsert_message: merge the row, commit.
UpsertMessage(k, value) ==
    /\ messages' = [messages EXCEPT ![k] = <<value>>]
    /\ last' = Outcome("upsert_message", 0, "ok", <<k, value>>)
    /\ UNCHANGED <<coreVars, schedVars, now, loaded_at, proc_uuid, failed, bot, sweep,
                   callers>>

\* core_session.get(Message, (section, alias)).value, within try / except
\* AttributeError: get returns None for a missing row, and None.value is the
\* AttributeError that is caught.
message_or_fallback(k) == IF messages[k] = <<>> THEN CRITICAL_ERROR_MSG ELSE messages[k][1]

\* get_message.  lookup tells whether the store answers the SELECT; when it
\* does not, core_session.get raises a DBAPI error (OperationalError), which
\* is no AttributeError: the except clause does not catch it and it leaves
\* get_message.
Lookups == {"answers", "fails"}
GetMessage(k, lookup) ==
    /\ last' = IF lookup = "fails"
               THEN Outcome("get_message", 0, "raised", <<k, lookup, "OperationalError">>)
               ELSE Outcome("get_message", 0, "ok", <<k, lookup, message_or_fallback(k)>>)
    /\ UNCHANGED <<coreVars, schedVars, procVars, sweep>>

\* The message table: reload_messages_task writes it, the bot reads it.
MessagesNext ==
    \/ \E k \in MessageKeys, value \in MessageTexts : UpsertMessage(k, value)
    \/ \E k \in MessageKeys, lookup \in Lookups : GetMessage(k, lookup)

SpecMessages == Init /\ [][MessagesNext]_vars

\* C22: get_message always returns a text: the row's value when the row
\* exists, and the critical-error text when the row is missing or the
\* lookup fails; it never ends with an exception.
C22_GetMessageNeverRaises ==
    last.op = "get_message" =>
        /\ last.outcome = "ok"
        /\ last.value[3] = IF last.value[2] = "fails" \/ messages[last.value[1]] = <<>>
                           THEN CRITICAL_ERROR_MSG
                           ELSE messages[last.value[1]][1]

\* C23: handle_config_time with a valid HH:MM calls engage exactly when the
\* chat has no Chat row, then persists exactly one CrontabSchedule /
\* PeriodicTask pair for the entry, refreshes latest_contact, sets the chat
\* CONFIGURED iff the entry is REPLENISHMENT, clears the chat's partial
\* entry and leaves the session in EVENT_TYPE.
C23_CommitSequence ==
    [][(last'.op = "handle_config_time" /\ last'.value[2] # <<>>) =>
          LET c == last'.chat IN
          /\ last'.value[4] <=> ~Chat(c).exists
          /\ last'.outcome = "ok"
          /\ crontab_seq' = crontab_seq + 1 /\ ptask_seq' = ptask_seq + 1
          /\ \E t \in ptasks' \ ptasks : t.task = last'.value[3]
          /\ chats'[c].exists /\ chats'[c].latest_contact = now
          /\ chats'[c].state = IF last'.value[3] = "REPLENISHMENT" /\ Chat(c).state # "TERMINATED"
                               THEN "CONFIGURED"
                               ELSE IF Chat(c).exists THEN Chat(c).state ELSE "INITIAL"
          /\ bot'.configs[c] = NoConfig
          /\ bot'.current_handlers[c] = "EVENT_TYPE"]_vars

\* The day of a partial entry is consistent with its basis.
EntryDayConsistent(config) ==
    CASE config.basis = "DAILY" -> config.day = <<>>
      [] config.basis = "DAY_OF_THE_WEEK" ->
            config.day # <<>> /\ \E i \in DOMAIN WeekDays : WeekDays[i] = config.day[1]
      [] config.basis = "DAY_OF_THE_MONTH" ->
            config.day # <<>> /\ config.day[1] \in 1..31
      [] OTHER -> FALSE

\* C24: from BASIS, DAILY leads to TIME, DAY_OF_THE_WEEK to DAY_OF_THE_WEEK
\* and DAY_OF_THE_MONTH to DAY_OF_THE_MONTH; a valid pick in either day
\* state leads to TIME; and whenever a chat's handler is TIME its partial
\* entry exists with an event type, a basis and a day consistent with the
\* basis.
C24_TransitionTable ==
    [][LET c == last'.chat IN
       /\ (last'.op = "handle_config_basis" /\ last'.outcome = "ok") =>
             bot'.current_handlers[c] =
                IF last'.value[1] = "DAILY" THEN "TIME" ELSE last'.value[1]
       /\ (last'.op = "handle_config_day_of_the_week" /\ last'.outcome = "ok") =>
             bot'.current_handlers[c] = "TIME"
       /\ (last'.op = "handle_config_day_of_the_month" /\ last'.value[1] # <<>>
             /\ last'.outcome = "ok") =>
             bot'.current_handlers[c] = "TIME"
       /\ \A d \in ChatIds :
             bot'.current_handlers[d] = "TIME" =>
                /\ bot'.configs[d].exists
                /\ bot'.configs[d].event_type \in EventTypes
                /\ bot'.configs[d].basis \in Bases
                /\ EntryDayConsistent(bot'.configs[d])]_vars

\* C25: schedule_crontab_task called without a chat_id writes nothing: no
\* step adds to the schedule store a PeriodicTask whose name was built
\* from no chat_id.
C25_NoChatIdIsTypeError ==
    [][\A t \in ptasks' \ ptasks : t.name[2] # <<>>]_vars

\* C26: in every state of the schedule store that schedule_crontab_task
\* produces, failed calls included, each PeriodicTask references a
\* CrontabSchedule that exists and each CrontabSchedule has its PeriodicTask.
C26_PairPersistedAtomically ==
    /\ \A t \in ptasks : \E r \in crontabs : r.id = t.crontab_id
    /\ \A r \in crontabs : \E t \in ptasks : t.crontab_id = r.id

\* C26 witness: a schedule_crontab_task whose commit failed, on a store
\* that holds an earlier pair.
C26_Witness ==
    /\ last.op = "schedule_crontab_task" /\ last.outcome = "raised"
    /\ failed.schedule
    /\ ptasks # {} /\ crontabs # {}

\* C27: schedule_crontab_task builds a PeriodicTask name that no row of the
\* schedule store has yet: called on a usable session it persists a new
\* pair, also when the same event type was scheduled for the chat before.
C27_FreshTaskName ==
    [][(last'.op = "schedule_crontab_task" /\ ~failed.schedule) =>
          /\ last'.outcome = "ok"
          /\ \E t \in ptasks' \ ptasks :
                /\ t.id = ptask_seq'
                /\ \A u \in ptasks : u.name # t.name]_vars

\* --------------------------- add_scheduler_objects_pair, statement by statement
\* chat = db_session.get(Chat, chat_id): the caller's session loads the row;
\* chat.schedule_ids.append(scheduler_id); chat.task_ids.append(task_id) on
\* the loaded object.  No lock is taken and the row carries no version.
PairGet(p, c, scheduler_id, task_id) ==
    /\ callers[p].pc = "idle"
    /\ chats[c].exists
    /\ Len(chats[c].schedule_ids) < MaxPairs
    /\ callers' = [callers EXCEPT
                      ![p] = [pc |-> "appended", chat |-> c,
                              schedule_ids |-> Append(chats[c].schedule_ids, scheduler_id),
                              task_ids |-> Append(chats[c].task_ids, task_id)]]
    /\ last' = Outcome("add_scheduler_objects_pair.get", c, "ok", <<scheduler_id, task_id>>)
    /\ UNCHANGED <<coreVars, schedVars, now, loaded_at, proc_uuid, failed, bot, sweep,
                   messages>>

\* flag_modified(...); db_session.commit(): UPDATE chat SET schedule_ids =
\* <the object's list>, task_ids = <the object's list> WHERE chat_id = ...
committed_arrays(p, row) ==
    [row EXCEPT !.schedule_ids = callers[p].schedule_ids,
                !.task_ids = callers[p].task_ids]

PairCommit(p) ==
    /\ callers[p].pc = "appended"
    /\ LET c == callers[p].chat
       IN /\ chats' = [chats EXCEPT ![c] = committed_arrays(p, @)]
          /\ last' = Outcome("add_scheduler_objects_pair.commit", c, "ok",
                             <<callers[p].schedule_ids[Len(callers[p].schedule_ids)],
                               callers[p].task_ids[Len(callers[p].task_ids)]>>)
    /\ callers' = [callers EXCEPT ![p] = NoCall]
    /\ UNCHANGED <<budgets, schedVars, now, loaded_at, proc_uuid, failed, bot, sweep,
                   messages>>

\* Two callers record pairs on one engaged chat at the same time.
PairRaceNext ==
    \/ \E c \in DialogueChats : EngageAsBot(c)
    \/ \E p \in Callers, c \in DialogueChats, s \in PairIds : PairGet(p, c, s, s + MaxPairs)
    \/ \E p \in Callers : PairCommit(p)

SpecPairRace == Init /\ [][PairRaceNext]_vars

\* C28: every add_scheduler_objects_pair call that commits leaves the
\* chat's arrays as they were stored, with its own pair appended at the
\* same index to both: no pair committed by a concurrent call is lost.
C28_NoLostPair ==
    [][last'.op = "add_scheduler_objects_pair.commit" =>
          LET c == last'.chat IN
          /\ chats'[c].schedule_ids = Append(Chat(c).schedule_ids, last'.value[1])
          /\ chats'[c].task_ids = Append(Chat(c).task_ids, last'.value[2])]_vars

\* C29: an operation that fails for one chat does not make the next
\* operation, for another chat, fail: when a manager operation raises right
\* after a raised operation of another chat, it was not one of the
\* process's sessions, left failed, that made it raise.
C29_FailureStaysWithItsChat ==
    [][(/\ last.op \in ManagerOps /\ last.outcome = "raised"
        /\ last'.op \in ManagerOps /\ last'.outcome = "raised"
        /\ last'.chat # last.chat) =>
          failed = NoFailure]_vars

\* set_terminated on a chat whose schedules are recorded on it.
ReleaseNext ==
    \/ \E c \in ChatIds : EngageAsBot(c)
    \/ \E c \in ChatIds, e \in DailyEntries : ScheduleCrontabTask(c, e, <<c>>)
    \/ \E c \in ChatIds, t \in ptasks :
          /\ t.name[2] = <<c>>
          /\ ~Recorded(c, t)
          /\ AddSchedulerObjectsPair(c, t.crontab_id, t.id)
    \/ \E c \in ChatIds : SetTerminated(c)
    \/ Restart

SpecRelease == Init /\ [][ReleaseNext]_vars

\* C30: set_terminated on an existing chat leaves it TERMINATED and leaves
\* in the schedule store no CrontabSchedule and no PeriodicTask whose id is
\* recorded in the chat's schedule_ids / task_ids.
C30_TerminatedReleasesIds ==
    [][(last'.op = "set_terminated" /\ last'.outcome = "ok" /\ Chat(last'.chat).exists) =>
          LET c == last'.chat IN
          /\ chats'[c].state = "TERMINATED"
          /\ \A i \in DOMAIN Chat(c).schedule_ids :
                /\ \A r \in crontabs' : r.id # Chat(c).schedule_ids[i]
                /\ \A t \in ptasks' : t.id # Chat(c).task_ids[i]]_vars

\* C31: an assignment of day that fails validation leaves the entry as it
\* was: entry.day holds the value it had before the assignment.
C31_RejectedDayNotStored ==
    [][(last'.op = "set_day" /\ last'.outcome = "raised") =>
          bot'.configs[last'.chat] = bot.configs[last'.chat]]_vars

\* C32: engage stamps the new Chat with the time of the call, and a
\* collect_ids_for_termination that runs right after an engage, at the same
\* time, does not return the chat just engaged.
C32_EngageStampsNow ==
    [][/\ (last'.op = "engage" /\ last'.outcome = "ok") =>
             chats'[last'.chat].latest_contact = now
       /\ (last.op = "engage" /\ last.outcome = "ok"
             /\ last'.op = "collect_ids_for_termination") =>
             last.chat \notin Range(last'.value[1])]_vars

\* C33: when a sweep run commits batch_terminate, every chat it terminates
\* is idle at that moment, and every schedule / task id recorded on such a
\* chat at that moment is among the ids the run collected and will delete.
C33_SweepSeesCurrentState ==
    [][last'.op = "terminate_idle_task.terminate" =>
          \A c \in Range(sweep.chat_ids) :
             /\ is_idle(Chat(c))
             /\ Range(Chat(c).schedule_ids) \subseteq Range(sweep.schedule_ids)
             /\ Range(Chat(c).task_ids) \subseteq Range(sweep.task_ids)]_vars

\* C34: the collect step of a sweep run returns no chat that is TERMINATED
\* already, and a run that follows a completed run with no chat newly idle
\* collects nothing.
C34_TerminatedNotRecollected ==
    [][last'.op = "terminate_idle_task.collect" =>
          \A c \in Range(sweep'.chat_ids) : Chat(c).state # "TERMINATED"]_vars

=============================================================================
